---------------------------- MODULE Spec2Model ----------------------------
(***************************************************************************)
(* A model of omnixai/explainers/vision/specific/utils.py:                 *)
(*   GradMixin._resize, smooth_grad with its two engines                   *)
(*   (_smooth_grad_torch, _smooth_grad_tf) and _guided_bp_torch.           *)
(*                                                                         *)
(* Tensors are modelled by what the properties below read: their shape     *)
(* (a tuple of axis sizes), the multiset of their values (for min/max),    *)
(* and for a selection out of the model's output the list of the           *)
(* (sample, class) positions that are picked.  The values of the model's   *)
(* outputs, of the noise and of the gradients are not modelled; the        *)
(* arg-max of the baseline outputs is any label per sample.                *)
(***************************************************************************)
EXTENDS Integers, Sequences, FiniteSets

VARIABLES
    \* ---- GradMixin._resize ----
    rArgs,        \* [pre, image, x]: the arguments and what preprocess_function returns
    rPc,          \* "call" | "done"
    rOutcome,     \* "running" | "ok" | "AssertionError"
    rResult,      \* the returned image, NoImage when nothing is returned
    rPreCalls,    \* how many times preprocess_function was invoked
    \* ---- smooth_grad ----
    args,         \* the call's arguments and environment (never changes)
    pc,           \* position in smooth_grad / the engine
    engine,       \* "none" | "torch" | "tf"
    inputs,       \* shape of the working input tensor, <<>> before it exists
    y,            \* the local y: [kind, k, s]
    i,            \* loop counter of the sampling loop
    gradients,    \* [kind: "int0" | "array" | "float", shape]
    trace,        \* the model invocations and the label resolution, in order
    selected,     \* the (sample, class) outputs differentiated in the last pass
    outcome,      \* "running" | "ok" | an exception name
    raisedBy,     \* where the exception was raised
    message,      \* what the message of the dispatcher's ValueError names
    ret,          \* the returned pair, NoReturn when nothing is returned
    \* ---- _guided_bp_torch ----
    gArgs,        \* the call's arguments
    gPc,          \* position in _guided_bp_torch
    gY,           \* the local y
    hooks,        \* the local list hooks (handles of registered interceptors)
    relu_outputs, \* the local stack relu_outputs
    modelHooks,   \* interceptors currently registered on the model's ReLU layers
    peakHooks,    \* the most interceptors registered at once during this call
    gOutcome,     \* "running" | "ok" | "AssertionError"
    gCalls        \* calls completed on this model so far

rvars == <<rArgs, rPc, rOutcome, rResult, rPreCalls>>
svars == <<args, pc, engine, inputs, y, i, gradients, trace, selected,
           outcome, raisedBy, message, ret>>
gvars == <<gArgs, gPc, gY, hooks, relu_outputs, modelHooks, peakHooks,
           gOutcome, gCalls>>
vars == <<rvars, svars, gvars>>

---------------------------------------------------------------------------
\* Bounds of the model.
MaxBatch == 2      \* images in X are 0..MaxBatch (resize) / 1..MaxBatch (engines)
MaxRaw == 2        \* raw pixel values are -1..MaxRaw
MaxProc == 3       \* small processed values are 0..MaxProc units of 1e-8
PixLen == 2        \* number of values kept of each array
MaxSamples == 2    \* num_samples is -1..MaxSamples
MaxRelu == 2       \* ReLU layers of the model are 0..MaxRelu
MaxCalls == 2      \* successive calls of _guided_bp_torch on one model

\* 1 / 1e-8: processed values are counted in units of the epsilon of line 40,
\* so that 1.0 is EpsInv units and the epsilon itself is one unit.
EpsInv == 100000000

---------------------------------------------------------------------------
\* Helpers on arrays (numpy's min and max over all elements).
SeqRange(s) == {s[p] : p \in 1..Len(s)}

np_min(s) == CHOOSE v \in SeqRange(s) : \A w \in SeqRange(s) : v <= w

np_max(s) == CHOOSE v \in SeqRange(s) : \A w \in SeqRange(s) : v >= w

Abs(n) == IF n >= 0 THEN n ELSE -n

\* ndarray.astype(int) of the rational n/d (d > 0): truncation toward zero.
astype_int(n, d) == IF n >= 0 THEN n \div d ELSE -((-n) \div d)

---------------------------------------------------------------------------
\* GradMixin._resize

NoImage == [batch |-> -1, pix |-> <<>>]

RawVals == -1..MaxRaw

ProcVals == (0..MaxProc) \cup {-EpsInv, EpsInv}

Arrays(S) == [1..PixLen -> S]

\* line 40: r = (max_a - min_a) / (max_b - min_b + 1e-8), as the fraction
\* r * 1e-8 = RNum / RDen (x counts units of 1e-8, so r * x = RNum * xi / RDen).
RNum(a, x) == np_max(a) - np_min(a)

RDen(a, x) == np_max(x) - np_min(x) + 1

\* A rescaling that forgets the offset min_a (mutant for C7).
Rescale_no_offset(a, x) ==
    [p \in 1..Len(x) |->
        astype_int(RNum(a, x) * x[p] - RNum(a, x) * np_min(x), RDen(a, x))]

\* line 41: (r * x + min_a - r * min_b).astype(int), elementwise.
Rescale(a, x) ==
    [p \in 1..Len(x) |->
        astype_int(RNum(a, x) * x[p] + np_min(a) * RDen(a, x) - RNum(a, x) * np_min(x),
                   RDen(a, x))]

\* A _resize that takes the no-preprocessing shortcut before the batch-size
\* check (mutant for C6).
_resize_shortcut_first(pre, image, x) ==
    IF pre = "None"
    THEN [outcome |-> "ok", result |-> image, preCalls |-> 0]
    ELSE IF image.batch # 1
    THEN [outcome |-> "AssertionError", result |-> NoImage, preCalls |-> 0]
    ELSE [outcome |-> "ok",
          result |-> [batch |-> 1, pix |-> Rescale(image.pix, x)],
          preCalls |-> 1]

\* lines 23-41: what _resize does with (preprocess_function, image), where x is
\* the array preprocess_function(image) yields after conversion, squeeze and
\* transposition (lines 28-36 keep its values).
_resize(pre, image, x) ==
    IF image.batch # 1
    THEN [outcome |-> "AssertionError", result |-> NoImage, preCalls |-> 0]
    ELSE IF pre = "None"
    THEN [outcome |-> "ok", result |-> image, preCalls |-> 0]
    ELSE [outcome |-> "ok",
          result |-> [batch |-> 1, pix |-> Rescale(image.pix, x)],
          preCalls |-> 1]

ResizeInit ==
    /\ rArgs \in [pre : {"None", "fn"},
                  image : [batch : 0..MaxBatch, pix : Arrays(RawVals)],
                  x : Arrays(ProcVals)]
    /\ rPc = "call"
    /\ rOutcome = "running"
    /\ rResult = NoImage
    /\ rPreCalls = 0

ResizeIdle ==
    /\ rArgs = [pre |-> "None", image |-> NoImage, x |-> <<>>]
    /\ rPc = "idle"
    /\ rOutcome = "running"
    /\ rResult = NoImage
    /\ rPreCalls = 0

Resize ==
    /\ rPc = "call"
    /\ LET r == _resize(rArgs.pre, rArgs.image, rArgs.x)
       IN  /\ rOutcome' = r.outcome
           /\ rResult' = r.result
           /\ rPreCalls' = r.preCalls
    /\ rPc' = "done"
    /\ UNCHANGED <<rArgs, svars, gvars>>

---------------------------------------------------------------------------
\* smooth_grad and its engines

Classes == {0, 1}

\* The local y: None, an int, or a sequence (a list, or the integer array the
\* arg-max yields).
NoneY == [kind |-> "None", k |-> 0, s |-> <<>>]

IntY(k) == [kind |-> "int", k |-> k, s |-> <<>>]

SeqY(s) == [kind |-> "seq", k |-> 0, s |-> s]

Labels(m) == [1..m -> Classes]

Ys ==
    {NoneY} \cup {IntY(k) : k \in Classes}
            \cup {SeqY(s) : s \in UNION {Labels(m) : m \in 0..(MaxBatch + 1)}}

\* type(model), and the two isinstance checks of lines 162 and 176.
ModelTypes == {"TorchNet", "KerasNet", "Hybrid", "SklearnModel"}

IsTorchModule(model) == model \in {"TorchNet", "Hybrid"}

IsKerasModel(model) == model \in {"KerasNet", "Hybrid"}

\* Raw images X of shape (B, H, W, C); len(X) is B.
RawShapes == {<<b, d[1], d[2], d[3]>> :
                 b \in 1..MaxBatch, d \in {<<2, 3, 1>>, <<2, 2, 3>>, <<3, 3, 3>>}}

len(X) == X[1]

\* preprocess_function is None, or yields a channel-first ("chw") or a
\* channel-last ("hwc") tensor of the images.
PreFns == {"None", "chw", "hwc"}

\* lines 57 and 111: preprocess_function(X) if given, else X.to_numpy().
WorkingInput(pre, X) ==
    IF pre = "chw" THEN <<X[1], X[4], X[2], X[3]>> ELSE X

\* np.transpose(a, axes) on the shape of a.
np_transpose(shape, axes) == [p \in 1..Len(axes) |-> shape[axes[p] + 1]]

NoGrad == [kind |-> "none", shape |-> <<>>]

NoReturn == [returned |-> FALSE, gradients |-> NoGrad, y |-> NoneY]

\* A dispatcher that tries the tf engine first (mutant for C1).
Dispatch_tf_first(torch_available, tf_available, model) ==
    IF tf_available /\ IsKerasModel(model) THEN "tf"
    ELSE IF torch_available /\ IsTorchModule(model) THEN "torch"
    ELSE "ValueError"

\* lines 159-188: which engine smooth_grad delegates to.
Dispatch(torch_available, tf_available, model) ==
    IF torch_available /\ IsTorchModule(model) THEN "torch"
    ELSE IF tf_available /\ IsKerasModel(model) THEN "tf"
    ELSE "ValueError"

\* A label resolution whose length check lets a longer y pass (mutant for C2).
torch_resolve_y_longer_ok(mode, yy, n, argmax) ==
    IF mode = "classification"
    THEN IF yy.kind # "None"
         THEN IF yy.kind = "int"
              THEN [ok |-> TRUE, y |-> SeqY([p \in 1..n |-> yy.k])]
              ELSE [ok |-> n <= Len(yy.s), y |-> yy]
         ELSE [ok |-> TRUE, y |-> SeqY(argmax)]
    ELSE [ok |-> TRUE, y |-> NoneY]

\* lines 62-75: the resolution of y in _smooth_grad_torch; ok is FALSE when the
\* assertion of line 67 fails.
torch_resolve_y(mode, yy, n, argmax) ==
    IF mode = "classification"
    THEN IF yy.kind # "None"
         THEN IF yy.kind = "int"
              THEN [ok |-> TRUE, y |-> SeqY([p \in 1..n |-> yy.k])]
              ELSE [ok |-> n = Len(yy.s), y |-> yy]
         ELSE [ok |-> TRUE, y |-> SeqY(argmax)]
    ELSE [ok |-> TRUE, y |-> NoneY]

\* A label resolution that broadcasts an int to one label too few (mutant for C3).
tf_resolve_y_short_broadcast(mode, yy, n, argmax) ==
    IF mode = "classification"
    THEN IF yy.kind # "None"
         THEN IF yy.kind = "int"
              THEN [ok |-> TRUE, y |-> SeqY([p \in 1..(n - 1) |-> yy.k])]
              ELSE [ok |-> n = Len(yy.s), y |-> yy]
         ELSE [ok |-> TRUE, y |-> SeqY(argmax)]
    ELSE [ok |-> TRUE, y |-> NoneY]

\* lines 113-126: the resolution of y in _smooth_grad_tf.
tf_resolve_y(mode, yy, n, argmax) ==
    IF mode = "classification"
    THEN IF yy.kind # "None"
         THEN IF yy.kind = "int"
              THEN [ok |-> TRUE, y |-> SeqY([p \in 1..n |-> yy.k])]
              ELSE [ok |-> n = Len(yy.s), y |-> yy]
         ELSE [ok |-> TRUE, y |-> SeqY(argmax)]
    ELSE [ok |-> TRUE, y |-> NoneY]

\* The whole output row of every sample (no selection): class -1 stands for
\* "every class of the row".
WholeOutputs(n) == [p \in 1..n |-> <<p, -1>>]

\* line 91: outputs[idx, y] with idx = arange(n): the positions (p, y[p]).
torch_select(n, labels) == [p \in 1..n |-> <<p, labels[p]>>]

\* line 142: tf.reshape(tf.gather(outputs, y, axis=1), (-1,)): gather yields the
\* n x len(y) matrix whose (p, q) entry is outputs[p, y[q]]; reshape lists it
\* row by row.
tf_select(n, labels) ==
    [t \in 1..(n * Len(labels)) |->
        <<((t - 1) \div Len(labels)) + 1, labels[((t - 1) % Len(labels)) + 1]>>]

\* lines 95 and 146: gradients / num_samples, where gradients is still the int
\* 0 of lines 77/128 when the loop body never ran.
Divide(g, num_samples) ==
    IF g.kind = "int0"
    THEN IF num_samples = 0
         THEN [error |-> "ZeroDivisionError", g |-> NoGrad]
         ELSE [error |-> "", g |-> [kind |-> "float", shape |-> <<>>]]
    ELSE [error |-> "", g |-> g]

SmoothGradInit ==
    /\ args \in [torch_available : BOOLEAN, tf_available : BOOLEAN,
                 model : ModelTypes, X : RawShapes, y : Ys, pre : PreFns,
                 mode : {"classification", "regression"},
                 num_samples : -1..MaxSamples]
    /\ pc = "smooth_grad"
    /\ engine = "none"
    /\ inputs = <<>>
    /\ y = args.y
    /\ i = 0
    /\ gradients = NoGrad
    /\ trace = <<>>
    /\ selected = <<>>
    /\ outcome = "running"
    /\ raisedBy = ""
    /\ message = ""
    /\ ret = NoReturn

SmoothGradIdle ==
    /\ args = [torch_available |-> FALSE, tf_available |-> FALSE,
               model |-> "SklearnModel", X |-> <<1, 2, 3, 1>>, y |-> NoneY,
               pre |-> "None", mode |-> "classification", num_samples |-> 1]
    /\ pc = "idle"
    /\ engine = "none"
    /\ inputs = <<>>
    /\ y = NoneY
    /\ i = 0
    /\ gradients = NoGrad
    /\ trace = <<>>
    /\ selected = <<>>
    /\ outcome = "running"
    /\ raisedBy = ""
    /\ message = ""
    /\ ret = NoReturn

Raise(exc, where, msg) ==
    /\ pc' = "done"
    /\ outcome' = exc
    /\ raisedBy' = where
    /\ message' = msg

\* lines 150-188
smooth_grad ==
    /\ pc = "smooth_grad"
    /\ LET d == Dispatch(args.torch_available, args.tf_available, args.model)
       IN  IF d = "ValueError"
           THEN /\ Raise("ValueError", "smooth_grad", args.model)
                /\ UNCHANGED engine
           ELSE /\ engine' = d
                /\ pc' = IF d = "torch" THEN "torch_inputs" ELSE "tf_inputs"
                /\ UNCHANGED <<outcome, raisedBy, message>>
    /\ UNCHANGED <<args, inputs, y, i, gradients, trace, selected, ret>>
    /\ UNCHANGED <<rvars, gvars>>

\* lines 55-59
torch_inputs ==
    /\ pc = "torch_inputs"
    /\ inputs' = WorkingInput(args.pre, args.X)
    /\ pc' = "torch_baseline"
    /\ UNCHANGED <<args, engine, y, i, gradients, trace, selected, outcome,
                   raisedBy, message, ret>>
    /\ UNCHANGED <<rvars, gvars>>

\* An engine that skips the forward pass on the unperturbed input (mutant for C9).
torch_baseline_skipped ==
    /\ pc = "torch_baseline"
    /\ pc' = "torch_labels"
    /\ UNCHANGED <<args, engine, inputs, y, i, gradients, trace, selected,
                   outcome, raisedBy, message, ret>>
    /\ UNCHANGED <<rvars, gvars>>

\* line 61
torch_baseline ==
    /\ pc = "torch_baseline"
    /\ trace' = Append(trace, "baseline")
    /\ pc' = "torch_labels"
    /\ UNCHANGED <<args, engine, inputs, y, i, gradients, selected, outcome,
                   raisedBy, message, ret>>
    /\ UNCHANGED <<rvars, gvars>>

\* lines 62-80
torch_labels ==
    /\ pc = "torch_labels"
    /\ \E argmax \in Labels(inputs[1]) :
          LET r == torch_resolve_y(args.mode, y, len(args.X), argmax)
          IN  IF r.ok
              THEN /\ y' = r.y
                   /\ trace' = Append(trace, "labels")
                   /\ gradients' = [kind |-> "int0", shape |-> <<>>]
                   /\ pc' = "torch_loop"
                   /\ UNCHANGED <<outcome, raisedBy, message>>
              ELSE /\ Raise("AssertionError", "_smooth_grad_torch", "")
                   /\ UNCHANGED <<y, trace, gradients>>
    /\ UNCHANGED <<args, engine, inputs, i, selected, ret>>
    /\ UNCHANGED <<rvars, gvars>>

\* lines 81-93: one iteration of the sampling loop
torch_pass ==
    /\ pc = "torch_loop"
    /\ i < args.num_samples
    /\ trace' = Append(trace, "pass")
    /\ selected' = IF y.kind = "None" THEN WholeOutputs(inputs[1])
                   ELSE torch_select(inputs[1], y.s)
    /\ gradients' = [kind |-> "array", shape |-> inputs]
    /\ i' = i + 1
    /\ UNCHANGED <<args, pc, engine, inputs, y, outcome, raisedBy, message, ret>>
    /\ UNCHANGED <<rvars, gvars>>

\* lines 95-97
torch_return ==
    /\ pc = "torch_loop"
    /\ ~(i < args.num_samples)
    /\ LET q == Divide(gradients, args.num_samples)
       IN  IF q.error # ""
           THEN /\ Raise(q.error, "_smooth_grad_torch", "")
                /\ UNCHANGED ret
           ELSE IF q.g.kind # "array"
           THEN \* np.transpose of a scalar with four axes: ValueError
                /\ Raise("ValueError", "np.transpose", "")
                /\ UNCHANGED ret
           ELSE /\ ret' = [returned |-> TRUE,
                           gradients |-> [kind |-> "array",
                                          shape |-> np_transpose(q.g.shape, <<0, 2, 3, 1>>)],
                           y |-> y]
                /\ pc' = "done"
                /\ outcome' = "ok"
                /\ UNCHANGED <<raisedBy, message>>
    /\ UNCHANGED <<args, engine, inputs, y, i, gradients, trace, selected>>
    /\ UNCHANGED <<rvars, gvars>>

\* lines 111-112
tf_inputs ==
    /\ pc = "tf_inputs"
    /\ inputs' = WorkingInput(args.pre, args.X)
    /\ pc' = "tf_labels"
    /\ UNCHANGED <<args, engine, y, i, gradients, trace, selected, outcome,
                   raisedBy, message, ret>>
    /\ UNCHANGED <<rvars, gvars>>

\* lines 113-130: the model is called (line 123) only to infer an absent y
tf_labels ==
    /\ pc = "tf_labels"
    /\ \E argmax \in Labels(inputs[1]) :
          LET r == tf_resolve_y(args.mode, y, len(args.X), argmax)
          IN  IF r.ok
              THEN /\ y' = r.y
                   /\ trace' = IF args.mode = "classification" /\ y.kind = "None"
                               THEN trace \o <<"baseline", "labels">>
                               ELSE Append(trace, "labels")
                   /\ gradients' = [kind |-> "int0", shape |-> <<>>]
                   /\ pc' = "tf_loop"
                   /\ UNCHANGED <<outcome, raisedBy, message>>
              ELSE /\ Raise("AssertionError", "_smooth_grad_tf", "")
                   /\ UNCHANGED <<y, trace, gradients>>
    /\ UNCHANGED <<args, engine, inputs, i, selected, ret>>
    /\ UNCHANGED <<rvars, gvars>>

\* lines 131-144: one iteration of the sampling loop
tf_pass ==
    /\ pc = "tf_loop"
    /\ i < args.num_samples
    /\ trace' = Append(trace, "pass")
    /\ selected' = IF y.kind = "None" THEN WholeOutputs(inputs[1])
                   ELSE tf_select(inputs[1], y.s)
    /\ gradients' = [kind |-> "array", shape |-> inputs]
    /\ i' = i + 1
    /\ UNCHANGED <<args, pc, engine, inputs, y, outcome, raisedBy, message, ret>>
    /\ UNCHANGED <<rvars, gvars>>

\* lines 146-147
tf_return ==
    /\ pc = "tf_loop"
    /\ ~(i < args.num_samples)
    /\ LET q == Divide(gradients, args.num_samples)
       IN  IF q.error # ""
           THEN /\ Raise(q.error, "_smooth_grad_tf", "")
                /\ UNCHANGED ret
           ELSE /\ ret' = [returned |-> TRUE, gradients |-> q.g, y |-> y]
                /\ pc' = "done"
                /\ outcome' = "ok"
                /\ UNCHANGED <<raisedBy, message>>
    /\ UNCHANGED <<args, engine, inputs, y, i, gradients, trace, selected>>
    /\ UNCHANGED <<rvars, gvars>>

---------------------------------------------------------------------------
\* _guided_bp_torch

Max(a, b) == IF a >= b THEN a ELSE b

\* lines 209-222: the resolution of y in _guided_bp_torch.
gbp_resolve_y(mode, yy, n, argmax) ==
    IF mode = "classification"
    THEN IF yy.kind # "None"
         THEN IF yy.kind = "int"
              THEN [ok |-> TRUE, y |-> SeqY([p \in 1..n |-> yy.k])]
              ELSE [ok |-> n = Len(yy.s), y |-> yy]
         ELSE [ok |-> TRUE, y |-> SeqY(argmax)]
    ELSE [ok |-> TRUE, y |-> NoneY]

\* The arguments of one call; relu is the number of rectified-linear layers of
\* the model, which stays the same from call to call.
GbpArgs(relu) ==
    [relu : {relu}, n : 1..MaxBatch, y : Ys,
     mode : {"classification", "regression"}]

GuidedBPInit ==
    /\ gArgs \in UNION {GbpArgs(relu) : relu \in 0..MaxRelu}
    /\ gPc = "inputs"
    /\ gY = gArgs.y
    /\ hooks = <<>>
    /\ relu_outputs = <<>>
    /\ modelHooks = {}
    /\ peakHooks = 0
    /\ gOutcome = "running"
    /\ gCalls = 0

GuidedBPIdle ==
    /\ gArgs = [relu |-> 0, n |-> 1, y |-> NoneY, mode |-> "classification"]
    /\ gPc = "idle"
    /\ gY = NoneY
    /\ hooks = <<>>
    /\ relu_outputs = <<>>
    /\ modelHooks = {}
    /\ peakHooks = 0
    /\ gOutcome = "running"
    /\ gCalls = 0

\* lines 202-206
gbp_inputs ==
    /\ gPc = "inputs"
    /\ gPc' = "baseline"
    /\ UNCHANGED <<gArgs, gY, hooks, relu_outputs, modelHooks, peakHooks,
                   gOutcome, gCalls>>
    /\ UNCHANGED <<rvars, svars>>

\* line 208
gbp_baseline ==
    /\ gPc = "baseline"
    /\ gPc' = "labels"
    /\ UNCHANGED <<gArgs, gY, hooks, relu_outputs, modelHooks, peakHooks,
                   gOutcome, gCalls>>
    /\ UNCHANGED <<rvars, svars>>

\* lines 209-222: a failed assertion leaves the function before the try
gbp_labels ==
    /\ gPc = "labels"
    /\ \E argmax \in Labels(gArgs.n) :
          LET r == gbp_resolve_y(gArgs.mode, gY, gArgs.n, argmax)
          IN  IF r.ok
              THEN /\ gY' = r.y
                   /\ gPc' = "hooks"
                   /\ UNCHANGED <<gOutcome, gCalls>>
              ELSE /\ gOutcome' = "AssertionError"
                   /\ gPc' = "done"
                   /\ gCalls' = gCalls + 1
                   /\ UNCHANGED gY
    /\ UNCHANGED <<gArgs, hooks, relu_outputs, modelHooks, peakHooks>>
    /\ UNCHANGED <<rvars, svars>>

\* lines 224-235: the two lists are created empty and the two interceptor
\* functions are defined; neither is registered on any layer
gbp_hooks ==
    /\ gPc = "hooks"
    /\ hooks' = <<>>
    /\ relu_outputs' = <<>>
    /\ gPc' = "try"
    /\ UNCHANGED <<gArgs, gY, modelHooks, peakHooks, gOutcome, gCalls>>
    /\ UNCHANGED <<rvars, svars>>

\* lines 237-240: the body of the try is pass
gbp_try ==
    /\ gPc = "try"
    /\ gPc' = "finally"
    /\ UNCHANGED <<gArgs, gY, hooks, relu_outputs, modelHooks, peakHooks,
                   gOutcome, gCalls>>
    /\ UNCHANGED <<rvars, svars>>

\* lines 241-243: every handle in hooks is removed; the function returns None
gbp_finally ==
    /\ gPc = "finally"
    /\ modelHooks' = modelHooks \ SeqRange(hooks)
    /\ peakHooks' = Max(peakHooks, Cardinality(modelHooks))
    /\ gOutcome' = "ok"
    /\ gPc' = "done"
    /\ gCalls' = gCalls + 1
    /\ UNCHANGED <<gArgs, gY, hooks, relu_outputs>>
    /\ UNCHANGED <<rvars, svars>>

\* The caller calls _guided_bp_torch again on the same model.
gbp_call ==
    /\ gPc = "done"
    /\ gCalls < MaxCalls
    /\ \E a \in GbpArgs(gArgs.relu) :
          /\ gArgs' = a
          /\ gY' = a.y
    /\ gPc' = "inputs"
    /\ hooks' = <<>>
    /\ relu_outputs' = <<>>
    /\ peakHooks' = Cardinality(modelHooks)
    /\ gOutcome' = "running"
    /\ UNCHANGED <<modelHooks, gCalls>>
    /\ UNCHANGED <<rvars, svars>>

---------------------------------------------------------------------------
\* Specifications: one per entry point.

NextResize == Resize

InitResize == ResizeInit /\ SmoothGradIdle /\ GuidedBPIdle

SpecResize == InitResize /\ [][NextResize]_vars

NextSmoothGrad ==
    \/ smooth_grad
    \/ torch_inputs
    \/ torch_baseline
    \/ torch_labels
    \/ torch_pass
    \/ torch_return
    \/ tf_inputs
    \/ tf_labels
    \/ tf_pass
    \/ tf_return

InitSmoothGrad == ResizeIdle /\ SmoothGradInit /\ GuidedBPIdle

SpecSmoothGrad == InitSmoothGrad /\ [][NextSmoothGrad]_vars

NextGuidedBP ==
    \/ gbp_inputs
    \/ gbp_baseline
    \/ gbp_labels
    \/ gbp_hooks
    \/ gbp_try
    \/ gbp_finally
    \/ gbp_call

InitGuidedBP == ResizeIdle /\ SmoothGradIdle /\ GuidedBPInit

SpecGuidedBP == InitGuidedBP /\ [][NextGuidedBP]_vars

---------------------------------------------------------------------------
\* Properties of smooth_grad (checked under SpecSmoothGrad)

n_images == len(args.X)

InEngine == engine # "none"

Passes(k) == IF k <= 0 THEN <<>> ELSE [p \in 1..k |-> "pass"]

\* C1: smooth_grad delegates to the torch engine when torch is available and the
\* model is an nn.Module; otherwise to the tf engine when tensorflow is available
\* and the model is a tf.keras.Model; in every remaining case it raises a
\* ValueError naming type(model), with no engine run and the model never invoked.
C1_DispatchOrder ==
    LET torchMatch == args.torch_available /\ IsTorchModule(args.model)
        tfMatch == args.tf_available /\ IsKerasModel(args.model)
    IN  pc # "smooth_grad" =>
          /\ torchMatch => engine = "torch"
          /\ (~torchMatch /\ tfMatch) => engine = "tf"
          /\ (~torchMatch /\ ~tfMatch) =>
                /\ pc = "done"
                /\ outcome = "ValueError"
                /\ raisedBy = "smooth_grad"
                /\ message = args.model
                /\ engine = "none"
                /\ inputs = <<>>
                /\ trace = <<>>
                /\ ~ret.returned

C1_Witness ==
    /\ pc = "done"
    /\ outcome = "ValueError"
    /\ raisedBy = "smooth_grad"
    /\ args.torch_available
    /\ args.tf_available
    /\ args.model = "SklearnModel"
    /\ message = "SklearnModel"

\* C2: in classification mode, in either engine, a y given as a sequence whose
\* length differs from the number of images makes the call end in an
\* AssertionError before any perturbed forward/backward pass, and nothing is
\* returned.
C2_LengthMismatchAsserts ==
    (/\ InEngine
     /\ args.mode = "classification"
     /\ args.y.kind = "seq"
     /\ Len(args.y.s) # n_images)
    => /\ i = 0
       /\ \A p \in 1..Len(trace) : trace[p] # "pass"
       /\ selected = <<>>
       /\ ~ret.returned
       /\ pc \notin {"torch_loop", "tf_loop"}
       /\ pc = "done" => outcome = "AssertionError"

C2_Witness ==
    /\ pc = "done"
    /\ outcome = "AssertionError"
    /\ raisedBy = "_smooth_grad_torch"
    /\ args.mode = "classification"
    /\ Len(args.y.s) = n_images + 1
    /\ trace = <<"baseline">>
    /\ ~ret.returned

\* C3: in classification mode a call with y = k and a call with y = [k, ..., k]
\* (one k per image) resolve to the same label sequence of length n, differentiate
\* the same outputs in every sampling iteration and return the same labels.
C3_IntBroadcast ==
    \A k \in Classes :
        LET bc == [p \in 1..n_images |-> k]
        IN  (/\ InEngine
             /\ args.mode = "classification"
             /\ args.y = IntY(k) \/ args.y = SeqY(bc)
             /\ pc \notin {"torch_inputs", "torch_baseline", "torch_labels",
                           "tf_inputs", "tf_labels"})
            => /\ outcome # "AssertionError"
               /\ y = SeqY(bc)
               /\ i > 0 =>
                     /\ \A t \in 1..Len(selected) : selected[t][2] = k
                     /\ Len(selected) =
                           IF engine = "torch" THEN n_images ELSE n_images * n_images
               /\ ret.returned => ret.y = SeqY(bc)

C3_Witness ==
    /\ pc = "done"
    /\ outcome = "ok"
    /\ engine = "tf"
    /\ args.mode = "classification"
    /\ args.y = IntY(1)
    /\ n_images = MaxBatch
    /\ i = MaxSamples
    /\ ret.y = SeqY([p \in 1..MaxBatch |-> 1])

\* C4: with no preprocessing function and a channel-last raw image of shape
\* (B, H, W, C), every successful call returns gradients of shape (B, H, W, C).
C4_ChannelLastShape ==
    (/\ pc = "done"
     /\ outcome = "ok"
     /\ args.pre = "None"
     /\ args.num_samples >= 1)
    => ret.gradients = [kind |-> "array", shape |-> args.X]

\* C5: for num_samples <= 0 an engine call fails fast with an invalid-argument
\* error: it never returns a pair, and it never fails with another kind of error
\* or after having done work (a model invocation).
C5_FailFast ==
    (/\ pc = "done"
     /\ InEngine
     /\ args.num_samples <= 0
     /\ outcome # "AssertionError")
    => /\ outcome = "ValueError"
       /\ raisedBy \in {"_smooth_grad_torch", "_smooth_grad_tf"}
       /\ trace = <<>>
       /\ ~ret.returned

\* C8: in every sampling iteration with labels set, the differentiated quantity
\* is built from exactly the n outputs output[p, y[p]], one per sample p, in the
\* torch engine and in the tf engine alike.
C8_PerSampleGather ==
    (/\ InEngine
     /\ i > 0
     /\ y.kind = "seq")
    => selected = [p \in 1..n_images |-> <<p, y.s[p]>>]

\* C9 as stated: every successful call (num_samples >= 1) invokes the model once
\* on the unperturbed input before the labels are resolved, and then num_samples
\* times on perturbed inputs, in both engines and for every mode and y.
C9_BaselineAlways ==
    (/\ pc = "done"
     /\ outcome = "ok"
     /\ args.num_samples >= 1)
    => trace = <<"baseline", "labels">> \o Passes(args.num_samples)

\* C9 amended: a successful call of the torch engine invokes the model once on
\* the unperturbed input before resolving the labels; a successful call of the
\* tf engine does so only in classification mode with y absent, and otherwise
\* makes no baseline invocation; then follow exactly num_samples passes on
\* perturbed inputs (none when num_samples is negative).
C9_BaselineWhenNeeded ==
    (/\ pc = "done"
     /\ outcome = "ok")
    => trace =
         (IF engine = "torch" \/ (args.mode = "classification" /\ args.y.kind = "None")
          THEN <<"baseline">> ELSE <<>>)
         \o <<"labels">> \o Passes(args.num_samples)

C9_Witness ==
    /\ pc = "done"
    /\ outcome = "ok"
    /\ engine = "tf"
    /\ args.y.kind = "int"
    /\ args.num_samples = MaxSamples
    /\ trace = <<"labels">> \o Passes(MaxSamples)

---------------------------------------------------------------------------
\* Properties of GradMixin._resize (checked under SpecResize)

RawRange == np_max(rArgs.image.pix) - np_min(rArgs.image.pix)

ProcRange == np_max(rArgs.x) - np_min(rArgs.x)

Rescaled == rPc = "done" /\ rOutcome = "ok" /\ rArgs.pre # "None"

RangeKept ==
    /\ Abs(np_min(rResult.pix) - np_min(rArgs.image.pix)) <= 1
    /\ Abs(np_max(rResult.pix) - np_max(rArgs.image.pix)) <= 1

\* C6: _resize fails with an assertion for every raw image whose batch size is
\* not 1, also when preprocess_function is None (the input is not returned), and
\* preprocess_function is never invoked on a failing call.
C6_BatchCheckFirst ==
    (rPc = "done" /\ rArgs.image.batch # 1)
    => /\ rOutcome = "AssertionError"
       /\ rResult = NoImage
       /\ rPreCalls = 0

C6_Witness ==
    /\ rPc = "done"
    /\ rArgs.image.batch = 2
    /\ rArgs.pre = "None"
    /\ rOutcome = "AssertionError"
    /\ rResult # rArgs.image

\* C7 as stated: for every processed array with non-constant values the result's
\* minimum and maximum equal the raw image's, up to integer rounding (1).
C7_RangeAnyNonConstant ==
    (Rescaled /\ ProcRange > 0) => RangeKept

\* C7 amended: the same, for processed arrays whose range is at least
\* (maxRaw - minRaw - 1) * 1e-8 (ranges count units of 1e-8).
C7_RangeWhenWide ==
    (Rescaled /\ ProcRange > 0 /\ ProcRange >= RawRange - 1) => RangeKept

C7_Witness ==
    /\ Rescaled
    /\ RawRange = 3
    /\ ProcRange = 2 * EpsInv
    /\ np_min(rResult.pix) = np_min(rArgs.image.pix)
    /\ np_max(rResult.pix) = np_max(rArgs.image.pix) - 1

---------------------------------------------------------------------------
\* Properties of _guided_bp_torch (checked under SpecGuidedBP)

\* C10: every call registers a forward and a backward interceptor on each
\* rectified-linear layer of the model before use, and has removed them all when
\* it ends.
C10_Lifecycle ==
    (gPc = "done" /\ gOutcome = "ok" /\ gArgs.relu > 0)
    => /\ peakHooks = 2 * gArgs.relu
       /\ modelHooks = {}

=============================================================================
